---- MODULE Spec2Model ----
(***************************************************************************)
(* Model of mani_skill/assets/robots/SO101/load_to_rerun.py: URDFLogger,   *)
(* which walks a parsed URDF (links, joints, visuals) and logs transforms  *)
(* and meshes to Rerun.                                                    *)
(*                                                                         *)
(* Numbers.  Lengths are integers.  Angles are counted in quarter turns    *)
(* (1 = pi/2 rad), so every rotation met is one of the 24 rotations of the *)
(* cube and a unit quaternion (x, y, z, w) is kept exactly as the integer  *)
(* quaternion with the same direction and coprime components, e.g.         *)
(* <<0,0,1,1>> for (0, 0, sin 45, cos 45).  NaN is the IEEE not-a-number   *)
(* numpy produces for 0/0.  Python's None is the empty sequence <<>> and a *)
(* present value v is <<v>>.                                               *)
(***************************************************************************)
EXTENDS Integers, Sequences, FiniteSets, TLC

VARIABLES urdf, entity_prefix, sink, pc, mode, ji, li, calls, outcome,
          fn, args, ret

vars == <<urdf, entity_prefix, sink, pc, mode, ji, li, calls, outcome,
          fn, args, ret>>

exportVars == <<urdf, entity_prefix, sink, pc, mode, ji, li, calls, outcome>>
pureVars == <<fn, args, ret>>

\* ---------------------------------------------------------------- bounds
MaxCalls == 2
MaxVal == 2
MaxAxis == 2

\* ------------------------------------------------------- optional values
None == <<>>
Some(v) == <<v>>
Get(o) == o[1]

\* A function's outcome: a returned value (Python None is None) or a raised
\* exception.
Ret(v) == [exc |-> "none", val |-> v]
Raise(e) == [exc |-> e, val |-> None]

\* ------------------------------------------------------ float arithmetic
NaN == 1000000

Abs(a) == IF a < 0 THEN 0 - a ELSE a

IsNaNVec(v) == \E k \in DOMAIN v : v[k] = NaN

FMul(a, b) == IF a = NaN \/ b = NaN THEN NaN ELSE a * b

\* a / n for the exact quotients met here; 0/0 is NaN
FDiv(a, n) == IF a = NaN \/ n = NaN \/ n = 0 THEN NaN
              ELSE IF a < 0 THEN 0 - ((0 - a) \div n) ELSE a \div n

VDiv(v, n) == [k \in DOMAIN v |-> FDiv(v[k], n)]
VMul(v, s) == [k \in DOMAIN v |-> FMul(v[k], s)]
VAdd(a, b) == [k \in DOMAIN a |-> IF a[k] = NaN \/ b[k] = NaN THEN NaN ELSE a[k] + b[k]]

SumSq(v) == IF IsNaNVec(v) THEN NaN
            ELSE IF Len(v) = 0 THEN 0
            ELSE LET sq == [k \in DOMAIN v |-> v[k] * v[k]]
                 IN IF Len(v) = 3 THEN sq[1] + sq[2] + sq[3]
                    ELSE sq[1] + sq[2] + sq[3] + sq[4]

\* np.linalg.norm of a vector whose length is a whole number
Norm(v) == LET s == SumSq(v)
           IN IF s = NaN THEN NaN ELSE CHOOSE n \in 0..s : n * n = s

Cross(a, b) == << a[2] * b[3] - a[3] * b[2],
                  a[3] * b[1] - a[1] * b[3],
                  a[1] * b[2] - a[2] * b[1] >>

RECURSIVE Gcd(_, _)
Gcd(a, b) == IF b = 0 THEN a ELSE Gcd(b, a % b)

\* the integer quaternion of the same direction with coprime components
Primitive(q) == LET g == Gcd(Gcd(Abs(q[1]), Abs(q[2])), Gcd(Abs(q[3]), Abs(q[4])))
                IN IF g = 0 THEN q ELSE [k \in 1..4 |-> FDiv(q[k], g)]

\* (sin, cos) of k eighth turns, up to the common factor 1 or 1/sqrt 2
HalfAngle(k) == LET m == k % 8
                IN CASE m = 0 -> [s |-> 0, c |-> 1]
                     [] m = 1 -> [s |-> 1, c |-> 1]
                     [] m = 2 -> [s |-> 1, c |-> 0]
                     [] m = 3 -> [s |-> 1, c |-> 0 - 1]
                     [] m = 4 -> [s |-> 0, c |-> 0 - 1]
                     [] m = 5 -> [s |-> 0 - 1, c |-> 0 - 1]
                     [] m = 6 -> [s |-> 0 - 1, c |-> 0]
                     [] OTHER -> [s |-> 0 - 1, c |-> 1]

NaNQuat == <<NaN, NaN, NaN, NaN>>
IdentityQuat == <<0, 0, 0, 1>>

\* st.Rotation.from_rotvec(v).as_quat(): angle = |v|, axis = v / |v|
FromRotvec(v) ==
    LET angle == Norm(v)
    IN IF angle = NaN THEN NaNQuat
       ELSE IF angle = 0 THEN IdentityQuat
       ELSE LET dir == VDiv(v, angle)
                h == HalfAngle(angle)
            IN Primitive(<<h.s * dir[1], h.s * dir[2], h.s * dir[3], h.c>>)

\* r1 * r2 of scipy Rotations: the Hamilton product q1 q2, scalar last
QMul(p, q) ==
    IF IsNaNVec(p) \/ IsNaNVec(q) THEN NaNQuat
    ELSE Primitive(<< p[4] * q[1] + p[1] * q[4] + p[2] * q[3] - p[3] * q[2],
                      p[4] * q[2] - p[1] * q[3] + p[2] * q[4] + p[3] * q[1],
                      p[4] * q[3] + p[1] * q[2] - p[2] * q[1] + p[3] * q[4],
                      p[4] * q[4] - p[1] * q[1] - p[2] * q[2] - p[3] * q[3] >>)

\* r.apply(v): v rotated by the rotation of direction q
Rotate(q, v) ==
    IF IsNaNVec(q) \/ IsNaNVec(v) THEN <<NaN, NaN, NaN>>
    ELSE LET u == <<q[1], q[2], q[3]>>
             n == SumSq(q)
             uv == Cross(u, v)
             uuv == Cross(u, uv)
         IN [k \in 1..3 |-> FDiv(n * v[k] + 2 * q[4] * uv[k] + 2 * uuv[k], n)]

\* st.Rotation.from_euler("xyz", rpy).as_quat(): lower case is extrinsic,
\* about x first, then the fixed y, then the fixed z
FromEuler(rpy) ==
    LET qx == FromRotvec(<<rpy[1], 0, 0>>)
        qy == FromRotvec(<<0, rpy[2], 0>>)
        qz == FromRotvec(<<0, 0, rpy[3]>>)
    IN QMul(qz, QMul(qy, qx))

\* R.as_matrix(): the rows of the rotation matrix
AsMatrix(q) == LET c1 == Rotate(q, <<1, 0, 0>>)
                   c2 == Rotate(q, <<0, 1, 0>>)
                   c3 == Rotate(q, <<0, 0, 1>>)
               IN [r \in 1..3 |-> <<c1[r], c2[r], c3[r]>>]

\* ----------------------------------------------------------- transforms
\* rr.Transform3D(translation=..., quaternion=..., scale=...)
Transform3D(t, q, s) == [translation |-> t, quaternion |-> q, scale |-> s]

origin_to_transform(origin) ==
    IF origin = None THEN Ret(None)
    ELSE LET o == Get(origin)
             \* the locals are bound only inside their "if"
             translationBound == o.xyz # None
             rotationBound == o.rpy # None
         IN IF ~translationBound THEN Raise("UnboundLocalError")
            ELSE IF ~rotationBound THEN Raise("UnboundLocalError")
            ELSE Ret(Some(Transform3D(o.xyz, Some(FromEuler(Get(o.rpy))), None)))

\* a plausible slip: the axis is used as given, not normalized
_joint_motion_transform_NoNorm(joint, value) ==
    LET jt == joint.type
        axis == IF joint.axis # None THEN Get(joint.axis) ELSE <<1, 0, 0>>
    IN IF jt \in {"revolute", "continuous"}
       THEN Ret(Some(Transform3D(None, Some(FromRotvec(VMul(axis, value))), None)))
       ELSE IF jt = "prismatic"
       THEN Ret(Some(Transform3D(Some(VMul(axis, value)), None, None)))
       ELSE Ret(Some(Transform3D(None, None, None)))

_joint_motion_transform(joint, value) ==
    LET jt == joint.type
        axis == IF joint.axis # None THEN Get(joint.axis) ELSE <<1, 0, 0>>
    IN IF jt \in {"revolute", "continuous"}
       THEN Ret(Some(Transform3D(None,
                Some(FromRotvec(VMul(VDiv(axis, Norm(axis)), value))), None)))
       ELSE IF jt = "prismatic"
       THEN Ret(Some(Transform3D(Some(VMul(VDiv(axis, Norm(axis)), value)), None, None)))
       ELSE Ret(Some(Transform3D(None, None, None)))

\* a plausible slip: the first transform's scale is carried over
_compose_both_KeepScale(a, b) ==
    LET trans1 == IF a.translation # None THEN Get(a.translation) ELSE <<0, 0, 0>>
        trans2 == IF b.translation # None THEN Get(b.translation) ELSE <<0, 0, 0>>
        quat1 == IF a.quaternion # None THEN Get(a.quaternion) ELSE IdentityQuat
        quat2 == IF b.quaternion # None THEN Get(b.quaternion) ELSE IdentityQuat
    IN Transform3D(Some(VAdd(trans1, Rotate(quat1, trans2))), Some(QMul(quat1, quat2)),
                   a.scale)

\* _compose once neither argument is None
_compose_both(a, b) ==
    LET trans1 == IF a.translation # None THEN Get(a.translation) ELSE <<0, 0, 0>>
        trans2 == IF b.translation # None THEN Get(b.translation) ELSE <<0, 0, 0>>
        quat1 == IF a.quaternion # None THEN Get(a.quaternion) ELSE IdentityQuat
        quat2 == IF b.quaternion # None THEN Get(b.quaternion) ELSE IdentityQuat
        r == QMul(quat1, quat2)
        composed_t == VAdd(trans1, Rotate(quat1, trans2))
    IN Transform3D(Some(composed_t), Some(r), None)

\* a plausible slip: None is taken for the identity and composed numerically
_compose_NoShortCircuit(t1, t2) ==
    IF t1 = None /\ t2 = None THEN Ret(None)
    ELSE Ret(Some(_compose_both(
                 IF t1 = None THEN Transform3D(None, None, None) ELSE Get(t1),
                 IF t2 = None THEN Transform3D(None, None, None) ELSE Get(t2))))

_compose(t1, t2) ==
    IF t1 = None THEN Ret(t2)
    ELSE IF t2 = None THEN Ret(t1)
    ELSE Ret(Some(_compose_both(Get(t1), Get(t2))))

\* ------------------------------------------------------- the URDF model
\* urdf = [links |-> <<[name, visuals]>>, joints |-> <<[name, parent, child,
\* type, axis, origin]>>], as urdf_parser_py hands it over
LinkNames == {urdf.links[k].name : k \in DOMAIN urdf.links}
JointSet == {urdf.joints[k] : k \in DOMAIN urdf.joints}

\* URDF.get_root(): the link that is no joint's child
GetRoot == CHOOSE l \in LinkNames : \A j \in JointSet : j.child # l

\* URDF.parent_map[child]: the joint whose child the link is
ParentJoint(child) == CHOOSE j \in JointSet : j.child = child

\* URDF.get_chain(root, tip): root, joint, link, ..., joint, tip
RECURSIVE GetChain(_, _)
GetChain(root, tip) ==
    IF tip = root THEN <<root>>
    ELSE LET j == ParentJoint(tip)
         IN GetChain(root, j.parent) \o <<j.name, tip>>

\* s[0::2]
SliceFrom0Step2(s) == [k \in 1..((Len(s) + 1) \div 2) |-> s[2 * k - 1]]
\* s[1::2]
SliceFrom1Step2(s) == [k \in 1..(Len(s) \div 2) |-> s[2 * k]]

\* sep.join(names)
RECURSIVE Join(_, _)
Join(sep, names) ==
    IF Len(names) = 0 THEN ""
    ELSE IF Len(names) = 1 THEN names[1]
    ELSE names[1] \o sep \o Join(sep, Tail(names))

\* a plausible slip: a "/" is put between the prefix and the names
link_entity_path_Slash(link) ==
    entity_prefix \o "/" \o Join("/", SliceFrom0Step2(GetChain(GetRoot, link.name)))

link_entity_path(link) ==
    LET root_name == GetRoot
        link_names == SliceFrom0Step2(GetChain(root_name, link.name))
    IN IF entity_prefix # "" THEN entity_prefix \o Join("/", link_names)
       ELSE "/" \o Join("/", link_names)

joint_entity_path(joint) ==
    LET root_name == GetRoot
        joint_names == SliceFrom0Step2(GetChain(root_name, joint.child))
    IN IF entity_prefix # "" THEN entity_prefix \o Join("/", joint_names)
       ELSE "/" \o Join("/", joint_names)

\* ------------------------------------------------------------ the logger
\* rr.log(entity_path, entity, static=...): one record reaching the sink
Rec(path, kind, data, static) ==
    [path |-> path, kind |-> kind, data |-> data, static |-> static, call |-> calls]

\* what a logging method did: the records it sent, in order, and how it ended
Did(exc, recs) == [exc |-> exc, recs |-> recs]

\* log_joint once origin_to_transform has answered
log_joint_with(entity_path, transform) ==
    IF transform.exc # "none" THEN Did(transform.exc, <<>>)
    ELSE IF transform.val # None
    THEN Did("none", <<Rec(entity_path, "Transform3D", Get(transform.val), FALSE)>>)
    ELSE Did("none", <<>>)

log_joint(entity_path, joint) ==
    log_joint_with(entity_path, origin_to_transform(joint.origin))

\* a plausible slip: the transform is logged before the mesh
log_trimesh_TransformFirst(entity_path, mesh, transform) ==
    IF mesh.visual = "ColorVisuals"
    THEN Did("none",
             (IF transform # None
              THEN <<Rec(entity_path, "Transform3D", Get(transform), TRUE)>>
              ELSE <<>>)
             \o <<Rec(entity_path, "Mesh3D", [vertex_colors |-> mesh.vertex_colors], TRUE)>>)
    ELSE Did("NotImplementedError", <<>>)

log_trimesh(entity_path, mesh, transform) ==
    IF mesh.visual = "ColorVisuals"
    THEN Did("none",
             <<Rec(entity_path, "Mesh3D", [vertex_colors |-> mesh.vertex_colors], TRUE)>>
             \o (IF transform # None
                 THEN <<Rec(entity_path, "Transform3D", Get(transform), TRUE)>>
                 ELSE <<>>))
    ELSE Did("NotImplementedError", <<>>)

\* "if mesh_scale is not None": the transform with the scale put on it
Scaled(transform, mesh_scale) ==
    IF mesh_scale # None
    THEN IF transform # None
         THEN Some([Get(transform) EXCEPT !.scale = mesh_scale])
         ELSE Some(Transform3D(None, None, mesh_scale))
    ELSE transform

\* "if material is not None and not isinstance(mesh.visual, ...TextureVisuals)"
WithMaterial(mesh, material) ==
    IF material # None /\ mesh.visual # "TextureVisuals"
    THEN IF Get(material).color # None
         THEN [kind |-> "Trimesh", visual |-> "ColorVisuals",
               vertex_colors |-> Get(material).color]
         ELSE IF Get(material).texture # None
         THEN [kind |-> "Trimesh", visual |-> "TextureVisuals", vertex_colors |-> None]
         ELSE mesh
    ELSE mesh

\* log_visual once origin_to_transform has answered
log_visual_with(entity_path, visual, t0) ==
    IF t0.exc # "none" THEN Did(t0.exc, <<>>)
    ELSE IF visual.geometry.kind # "Mesh" THEN Did("NotImplementedError", <<>>)
    ELSE IF visual.geometry.loads.kind # "Trimesh" THEN Did("NotImplementedError", <<>>)
    ELSE log_trimesh(entity_path,
                     WithMaterial(visual.geometry.loads, visual.material),
                     Scaled(t0.val, visual.geometry.scale))

log_visual(entity_path, visual) ==
    log_visual_with(entity_path, visual, origin_to_transform(visual.origin))

VisualName(i) == "visual_" \o ToString(i)

\* what was sent once d is followed by rest, unless d raised
Then(d, rest) == IF d.exc # "none" THEN d ELSE Did(rest.exc, d.recs \o rest.recs)

\* log_link: the visuals from index i (0-based) on, stopping at the first raise
RECURSIVE log_link_from(_, _, _)
log_link_from(entity_path, link, i) ==
    IF i >= Len(link.visuals) THEN Did("none", <<>>)
    ELSE Then(log_visual(entity_path \o "/" \o VisualName(i), link.visuals[i + 1]),
              log_link_from(entity_path, link, i + 1))

log_link(entity_path, link) == log_link_from(entity_path, link, 0)

\* ------------------------------------------------------ the URDFs tried
OFull == Some([xyz |-> Some(<<1, 0, 0>>), rpy |-> Some(<<0, 0, 1>>)])
OXyzOnly == Some([xyz |-> Some(<<0, 2, 0>>), rpy |-> None])
ORpyOnly == Some([xyz |-> None, rpy |-> Some(<<1, 0, 0>>)])

\* what trimesh.load_mesh returns for the file
ColorMesh == [kind |-> "Trimesh", visual |-> "ColorVisuals", vertex_colors |-> Some("file")]
TextureMesh == [kind |-> "Trimesh", visual |-> "TextureVisuals", vertex_colors |-> None]
SceneOfMeshes == [kind |-> "Scene", visual |-> "none", vertex_colors |-> None]

Mesh(scale, loads) == [kind |-> "Mesh", scale |-> scale, loads |-> loads]
Box == [kind |-> "Box", scale |-> None, loads |-> SceneOfMeshes]
Material(color, texture) == Some([color |-> color, texture |-> texture])
Visual(geometry, material, origin) ==
    [geometry |-> geometry, material |-> material, origin |-> origin]

VOk == Visual(Mesh(None, ColorMesh), Material(Some("rgba"), None), OFull)
VPlain == Visual(Mesh(None, ColorMesh), None, None)
VScaled == Visual(Mesh(Some(<<2, 2, 2>>), ColorMesh), Material(None, None), None)
VScaledOrigin == Visual(Mesh(Some(<<2, 2, 2>>), ColorMesh), Material(Some("rgba"), None), OFull)
VBox == Visual(Box, None, OFull)
VScene == Visual(Mesh(None, SceneOfMeshes), None, None)
VTexMesh == Visual(Mesh(None, TextureMesh), None, OFull)
VTexMaterial == Visual(Mesh(None, ColorMesh), Material(None, Some("tex.png")), None)
VPartial == Visual(Mesh(None, ColorMesh), None, OXyzOnly)

VisualLists == { <<>>, <<VScaledOrigin>>, <<VPlain, VOk>>, <<VOk, VBox>>,
                 <<VScaled, VScene>>, <<VOk, VTexMesh>>, <<VPlain, VTexMaterial>>,
                 <<VOk, VPartial>> }

JFixed == [type |-> "fixed", axis |-> None, origin |-> None]
JRevolute == [type |-> "revolute", axis |-> Some(<<0, 0, 1>>), origin |-> OFull]
JZeroAxis == [type |-> "prismatic", axis |-> Some(<<0, 0, 0>>), origin |-> OFull]
JXyzOnly == [type |-> "continuous", axis |-> Some(<<2, 0, 0>>), origin |-> OXyzOnly]
JRpyOnly == [type |-> "revolute", axis |-> None, origin |-> ORpyOnly]

FirstJointKinds == {JRevolute, JZeroAxis, JRpyOnly}
SecondJointKinds == {JFixed, JRevolute, JXyzOnly}

Joint(name, parent, child, k) ==
    [name |-> name, parent |-> parent, child |-> child,
     type |-> k.type, axis |-> k.axis, origin |-> k.origin]

Link(name, visuals) == [name |-> name, visuals |-> visuals]

\* base -j1-> arm -j2-> hand, or base -j1-> arm and base -j2-> hand
Parents == {"arm", "base"}
Prefixes == {"", "xx"}

\* R.random(): one of these rotations
RandomRots == {FromRotvec(<<0, 0, 1>>), FromRotvec(<<2, 0, 0>>)}

Modes == {"Original", "Random"}

\* ------------------------------------------------------------ the export
Init ==
    /\ \E k1 \in FirstJointKinds, k2 \in SecondJointKinds, p2 \in Parents,
          va \in VisualLists :
         urdf = [links |-> <<Link("base", <<>>), Link("arm", va), Link("hand", <<VOk>>)>>,
                 joints |-> <<Joint("j1", "base", "arm", k1),
                              Joint("j2", p2, "hand", k2)>>]
    /\ entity_prefix \in Prefixes
    /\ sink = <<>>
    /\ pc = "idle"
    /\ mode = "none"
    /\ ji = 0
    /\ li = 0
    /\ calls = 0
    /\ outcome = "none"
    /\ fn = "none"
    /\ args = <<>>
    /\ ret = Ret(None)

\* where log() stands once joint k is the next one
AfterJoints(k) == IF k <= Len(urdf.joints) THEN "joints"
                  ELSE IF Len(urdf.links) >= 1 THEN "links" ELSE "idle"
AfterLinks(k) == IF k <= Len(urdf.links) THEN "links" ELSE "idle"
AfterRandom(k) == IF k <= Len(urdf.joints) THEN "random" ELSE "idle"
Ended(where) == IF where = "idle" THEN "ok" ELSE "running"

\* urdf_logger.log(joint_stats=...) is entered; a caller that caught a raise
\* may call again
Log(joint_stats) ==
    /\ pc = "idle"
    /\ calls < MaxCalls
    /\ calls' = calls + 1
    /\ mode' = joint_stats
    /\ ji' = 1
    /\ li' = 1
    /\ pc' = IF joint_stats = "Original" THEN AfterJoints(1) ELSE AfterRandom(1)
    /\ outcome' = Ended(pc')
    /\ UNCHANGED <<urdf, entity_prefix, sink, pureVars>>

\* the records of one joint reach the sink; a raise ends the call
JointTurn(d) ==
    /\ sink' = sink \o d.recs
    /\ IF d.exc # "none"
       THEN /\ pc' = "idle"
            /\ outcome' = d.exc
            /\ UNCHANGED <<ji>>
       ELSE /\ ji' = ji + 1
            /\ pc' = AfterJoints(ji + 1)
            /\ outcome' = Ended(pc')

\* one turn of "for joint in self.urdf.joints" of the Original branch
LogJointStep ==
    /\ pc = "joints"
    /\ JointTurn(log_joint(joint_entity_path(urdf.joints[ji]), urdf.joints[ji]))
    /\ UNCHANGED <<urdf, entity_prefix, mode, li, calls, pureVars>>

\* the records of one link reach the sink; a raise ends the call
LinkTurn(d) ==
    /\ sink' = sink \o d.recs
    /\ IF d.exc # "none"
       THEN /\ pc' = "idle"
            /\ outcome' = d.exc
            /\ UNCHANGED <<li>>
       ELSE /\ li' = li + 1
            /\ pc' = AfterLinks(li + 1)
            /\ outcome' = Ended(pc')

\* one turn of "for link in self.urdf.links"
LogLinkStep ==
    /\ pc = "links"
    /\ LinkTurn(log_link(link_entity_path(urdf.links[li]), urdf.links[li]))
    /\ UNCHANGED <<urdf, entity_prefix, mode, ji, calls, pureVars>>

\* a plausible slip: a fixed joint is skipped
LogRandomStep_SkipFixed ==
    /\ pc = "random"
    /\ \E r \in RandomRots :
         LET joint == urdf.joints[ji]
         IN sink' = IF joint.type = "fixed" THEN sink
                    ELSE Append(sink, Rec(joint_entity_path(joint), "ndarray",
                                          [matrix |-> AsMatrix(r)], FALSE))
    /\ ji' = ji + 1
    /\ pc' = AfterRandom(ji + 1)
    /\ outcome' = Ended(pc')
    /\ UNCHANGED <<urdf, entity_prefix, mode, li, calls, pureVars>>

\* one turn of "for i, joint in enumerate(self.urdf.joints)" of the else branch
LogRandomStep ==
    /\ pc = "random"
    /\ \E r \in RandomRots :
         LET joint == urdf.joints[ji]
             R_rand == AsMatrix(r)
             entity_path == joint_entity_path(joint)
         IN sink' = Append(sink, Rec(entity_path, "ndarray", [matrix |-> R_rand], FALSE))
    /\ ji' = ji + 1
    /\ pc' = AfterRandom(ji + 1)
    /\ outcome' = Ended(pc')
    /\ UNCHANGED <<urdf, entity_prefix, mode, li, calls, pureVars>>

Next ==
    \/ \E joint_stats \in Modes : Log(joint_stats)
    \/ LogJointStep
    \/ LogLinkStep
    \/ LogRandomStep

Spec == Init /\ [][Next]_vars

\* ------------------------------------------ the pure helpers, called alone
\* (each behaviour is one call of one helper on one input)
Vecs == {<<0, 0, 0>>, <<1, 0, 0>>, <<0, MaxVal, 1>>}
Rpys == {<<0, 0, 0>>, <<0, 0, 1>>, <<1, 0, MaxVal>>}
Quats == {IdentityQuat, FromRotvec(<<0, 0, 1>>), FromRotvec(<<MaxVal, 0, 0>>)}
Scales == {<<2, 2, 2>>}
Opt(S) == {None} \cup {Some(x) : x \in S}

Origins == Opt([xyz : Opt(Vecs), rpy : Opt(Rpys)])
Transforms == Opt([translation : Opt(Vecs), quaternion : Opt(Quats), scale : Opt(Scales)])

Values == (0 - MaxVal)..MaxVal
Axes == UNION {{<<k, 0, 0>>, <<0, k, 0>>, <<0, 0, k>>} : k \in (0 - MaxAxis)..MaxAxis}
JointTypes == {"revolute", "continuous", "prismatic", "fixed", "floating"}
MotionJoints == [type : JointTypes, axis : Opt(Axes)]

PureInit ==
    /\ urdf = [links |-> <<Link("base", <<>>), Link("arm", <<VOk>>)>>,
               joints |-> <<Joint("j1", "base", "arm",
                                  JFixed)>>]
    /\ entity_prefix = ""
    /\ sink = <<>>
    /\ pc = "idle"
    /\ mode = "none"
    /\ ji = 0
    /\ li = 0
    /\ calls = 0
    /\ outcome = "none"
    /\ fn = "none"
    /\ args = <<>>
    /\ ret = Ret(None)

CallOriginToTransform ==
    /\ fn = "none"
    /\ \E origin \in Origins :
         /\ fn' = "origin_to_transform"
         /\ args' = <<origin>>
         /\ ret' = origin_to_transform(origin)
    /\ UNCHANGED exportVars

CallJointMotionTransform ==
    /\ fn = "none"
    /\ \E joint \in MotionJoints, value \in Values :
         /\ fn' = "_joint_motion_transform"
         /\ args' = <<joint, value>>
         /\ ret' = _joint_motion_transform(joint, value)
    /\ UNCHANGED exportVars

CallCompose ==
    /\ fn = "none"
    /\ \E t1 \in Transforms, t2 \in Transforms :
         /\ fn' = "_compose"
         /\ args' = <<t1, t2>>
         /\ ret' = _compose(t1, t2)
    /\ UNCHANGED exportVars

PureNext ==
    \/ CallOriginToTransform
    \/ CallJointMotionTransform
    \/ CallCompose

PureSpec == PureInit /\ [][PureNext]_vars

\* ----------------------------------------------------------------- claims
Pre == IF entity_prefix = "" THEN "/" ELSE entity_prefix
Joints == {urdf.joints[k] : k \in DOMAIN urdf.joints}
Links == {urdf.links[k] : k \in DOMAIN urdf.links}

\* the records of call c, in the order they reached the sink
CallRecs(c) == LET OfCall(r) == r.call = c IN SelectSeq(sink, OfCall)

VisualPathsOf(link) ==
    {link_entity_path(link) \o "/" \o VisualName(v) : v \in 0..(Len(link.visuals) - 1)}
VisualPaths == UNION {VisualPathsOf(l) : l \in Links}

\* C1: for every joint, joint_entity_path is the prefix (or "/") followed by
\* the "/"-join of the joint names of the root-to-child chain (its elements
\* at odd indices); no link name appears in it.
C1_JointPathIsJointNames ==
    \A j \in Joints :
        joint_entity_path(j) = Pre \o Join("/", SliceFrom1Step2(GetChain(GetRoot, j.child)))

\* the names of the links from the root down to the link called name
RECURSIVE NodeNamesTo(_)
NodeNamesTo(name) ==
    IF \A j \in Joints : j.child # name THEN <<name>>
    ELSE Append(NodeNamesTo((CHOOSE j \in Joints : j.child = name).parent), name)

RECURSIVE Concat(_)
Concat(names) == IF names = <<>> THEN "" ELSE names[1] \o Concat(Tail(names))

\* root, "/", link, "/", ..., link, written out piece by piece
WithSlashes(names) == [k \in 1..(2 * Len(names) - 1) |->
                          IF k % 2 = 1 THEN names[(k + 1) \div 2] ELSE "/"]

C2_PathIsNodeNames ==
    \A l \in Links :
        link_entity_path(l) = Concat(<<Pre>> \o WithSlashes(NodeNamesTo(l.name)))

\* C2: link_entity_path of every link is the "/"-join of the link names from
\* the root down to it, put directly after the prefix, or after one "/" when
\* the prefix is empty; and no step of any export, in either mode, changes
\* what it returns.
C2_LinkPathStable ==
    /\ []C2_PathIsNodeNames
    /\ [][\A k \in DOMAIN urdf.links :
             link_entity_path(urdf.links[k])' = link_entity_path(urdf.links[k])]_vars

C2_Witness ==
    /\ pc = "idle"
    /\ calls = 2
    /\ entity_prefix = "xx"
    /\ link_entity_path(urdf.links[3]) = "xxbase/arm/hand"
    /\ \E i \in DOMAIN sink : sink[i].kind = "Mesh3D"
    /\ \E i \in DOMAIN sink : sink[i].kind = "ndarray"

\* C3: origin_to_transform never fails; it returns None exactly when the
\* origin is absent or both xyz and rpy are absent, and a transform whenever
\* at least one of them is present.
C3_OriginNeverFails ==
    fn = "origin_to_transform" =>
        LET origin == args[1]
            nothing == origin = None \/ (Get(origin).xyz = None /\ Get(origin).rpy = None)
        IN /\ ret.exc = "none"
           /\ (ret.val = None) <=> nothing

HasScale(t) == t # None /\ Get(t).scale # None

\* C4 as claimed: whatever the two inputs, the value _compose returns
\* carries no scale.
C4_NeverScale == fn = "_compose" => ~HasScale(ret.val)

\* C4, amended: _compose of two transforms returns a transform without scale;
\* when one input is None the other comes back as it is, so the result
\* carries a scale exactly when one input is None and the other has a scale.
C4_ScaleOnlyThroughNone ==
    fn = "_compose" =>
        LET t1 == args[1]
            t2 == args[2]
        IN /\ (t1 # None /\ t2 # None) => (ret.exc = "none" /\ ret.val # None)
           /\ HasScale(ret.val) <=> \/ (t1 = None /\ HasScale(t2))
                                    \/ (t2 = None /\ HasScale(t1))

C4_Witness ==
    /\ fn = "_compose"
    /\ HasScale(args[1])
    /\ HasScale(args[2])
    /\ ret.val # None
    /\ Get(ret.val).scale = None

\* C5: _compose(None, t) is t and _compose(t, None) is t, unchanged: a
\* missing translation or rotation of t stays missing; _compose(None, None)
\* is None.
C5_NoneShortCircuit ==
    fn = "_compose" =>
        /\ args[1] = None => ret = Ret(args[2])
        /\ args[2] = None => ret = Ret(args[1])

C5_Witness ==
    /\ fn = "_compose"
    /\ args[1] = None
    /\ args[2] # None
    /\ Get(args[2]).translation = None
    /\ Get(args[2]).quaternion # None
    /\ ret.val = args[2]

\* C6: with a zero axis, _joint_motion_transform of a revolute, continuous
\* or prismatic joint fails with DegenerateAxisError and returns no transform.
C6_ZeroAxisRaises ==
    (/\ fn = "_joint_motion_transform"
     /\ args[1].axis = Some(<<0, 0, 0>>)
     /\ args[1].type \in {"revolute", "continuous", "prismatic"})
    => (ret.exc = "DegenerateAxisError" /\ ret.val = None)

\* u turned by k quarter turns about the unit vector n it is perpendicular to
Turned(n, k, u) == LET m == k % 4
                   IN CASE m = 0 -> u
                        [] m = 1 -> Cross(n, u)
                        [] m = 2 -> VMul(u, 0 - 1)
                        [] OTHER -> VMul(Cross(n, u), 0 - 1)

UnitVecs == { <<1, 0, 0>>, <<0, 1, 0>>, <<0, 0, 1>>,
              <<0 - 1, 0, 0>>, <<0, 0 - 1, 0>>, <<0, 0, 0 - 1>> }
Dot(a, b) == a[1] * b[1] + a[2] * b[2] + a[3] * b[3]

\* C7: the kind decides the result.  With a non-zero axis (an absent one
\* counting as (1,0,0)): revolute and continuous give the rotation by value
\* about the axis direction and no translation; prismatic gives the
\* translation value * axis / |axis| and no rotation, (v,0,0) for an axis
\* (k,0,0) with k > 0.  Any other kind gives the transform with nothing set
\* (the identity), whatever the value and the axis.
C7_KindDecides ==
    fn = "_joint_motion_transform" =>
        LET joint == args[1]
            value == args[2]
            axis == IF joint.axis = None THEN <<1, 0, 0>> ELSE Get(joint.axis)
            n == CHOOSE u \in UnitVecs : \E k \in 1..MaxAxis : axis = VMul(u, k)
            t == Get(ret.val)
        IN /\ ret.exc = "none"
           /\ ret.val # None
           /\ t.scale = None
           /\ (joint.type \in {"revolute", "continuous"} /\ axis # <<0, 0, 0>>) =>
                 /\ t.translation = None
                 /\ t.quaternion # None
                 /\ Rotate(Get(t.quaternion), n) = n
                 /\ \A u \in UnitVecs :
                       Dot(u, n) = 0 => Rotate(Get(t.quaternion), u) = Turned(n, value, u)
           /\ (joint.type = "prismatic" /\ axis # <<0, 0, 0>>) =>
                 /\ t.quaternion = None
                 /\ t.translation # None
                 /\ \A k \in 1..3 :
                       Get(t.translation)[k] * Norm(axis) = axis[k] * value
                 /\ (axis[1] > 0 /\ axis[2] = 0 /\ axis[3] = 0) =>
                       Get(t.translation) = <<value, 0, 0>>
           /\ joint.type \notin {"revolute", "continuous", "prismatic"} =>
                 t = Transform3D(None, None, None)

C7_Witness ==
    /\ fn = "_joint_motion_transform"
    /\ args[1].type = "prismatic"
    /\ args[1].axis = Some(<<2, 0, 0>>)
    /\ args[2] = 2
    /\ ret.val = Some(Transform3D(Some(<<2, 0, 0>>), None, None))

\* C8: when a static export fails on a visual, the call has sent no record
\* to any visual path of the failing link, those of its earlier visuals
\* included.
C8_NothingUnderFailingLink ==
    (pc = "idle" /\ mode = "Original" /\ outcome = "NotImplementedError") =>
        \A i \in DOMAIN sink :
            ~(sink[i].call = calls /\ sink[i].path \in VisualPathsOf(urdf.links[li]))


\* the place of a joint record in the joint list, of a visual record among
\* the visuals (link by link, visual by visual)
JointIndex(path) ==
    CHOOSE k \in DOMAIN urdf.joints : joint_entity_path(urdf.joints[k]) = path
VisualRank(path) ==
    CHOOSE n \in 0..(100 * Len(urdf.links) + 99) :
        \E l \in DOMAIN urdf.links : \E v \in 0..(Len(urdf.links[l].visuals) - 1) :
            /\ n = 100 * l + v
            /\ path = link_entity_path(urdf.links[l]) \o "/" \o VisualName(v)

C9_Order ==
    mode = "Original" =>
        LET S == CallRecs(calls)
            \* the joints the loop has got past
            done == IF ji > Len(urdf.joints) THEN Len(urdf.joints) ELSE ji - 1
        IN /\ \A i \in DOMAIN S :
                IF S[i].static
                THEN /\ S[i].path \in VisualPaths
                     /\ S[i].kind \in {"Mesh3D", "Transform3D"}
                     /\ S[i].kind = "Transform3D" =>
                           (i > 1 /\ S[i - 1].kind = "Mesh3D" /\ S[i - 1].path = S[i].path)
                ELSE /\ S[i].kind = "Transform3D"
                     /\ \E j \in Joints : joint_entity_path(j) = S[i].path
                     /\ urdf.joints[JointIndex(S[i].path)].origin # None
           /\ \A i, j \in DOMAIN S :
                i < j =>
                    /\ ~(S[i].static /\ ~S[j].static)
                    /\ (~S[i].static /\ ~S[j].static) =>
                          JointIndex(S[i].path) < JointIndex(S[j].path)
                    /\ (S[i].static /\ S[j].static) =>
                          \/ VisualRank(S[i].path) < VisualRank(S[j].path)
                          \/ /\ S[i].path = S[j].path
                             /\ j = i + 1
                             /\ S[i].kind = "Mesh3D"
                             /\ S[j].kind = "Transform3D"
           /\ pc = "joints" => \A i \in DOMAIN S : ~S[i].static
           /\ \A k \in 1..done :
                urdf.joints[k].origin # None =>
                    \E i \in DOMAIN S :
                        ~S[i].static /\ S[i].path = joint_entity_path(urdf.joints[k])

\* the turns the two loops of a static export still have to take
Remaining == (Len(urdf.joints) + 1 - ji) + (Len(urdf.links) + 1 - li)
Running == mode = "Original" /\ pc \in {"joints", "links"}

\* C9: in a static export the joint transform records come first, in joint
\* order, a joint without origin sending nothing; the visual records follow
\* only once the joint loop is over, link by link and visual by visual, each
\* geometry record before its transform record; no joint record follows a
\* geometry record; and the call comes to an end: while it runs the loop it
\* is in has an element left to take, and every turn ends the call or leaves
\* fewer turns.
C9_StaticOrder ==
    /\ []C9_Order
    /\ [](Running => IF pc = "joints" THEN ji \in DOMAIN urdf.joints
                                          ELSE li \in DOMAIN urdf.links)
    /\ [][Running => (pc' = "idle" \/ Remaining' < Remaining)]_vars

C9_Witness ==
    /\ pc = "idle"
    /\ mode = "Original"
    /\ outcome = "ok"
    /\ \E j \in Joints : j.origin = None
    /\ LET S == CallRecs(calls)
       IN /\ Len(S) >= 5
          /\ ~S[1].static
          /\ S[2].kind = "Mesh3D"
          /\ S[3].kind = "Transform3D" /\ S[3].static

C10_OnePerJoint ==
    mode = "Random" =>
        LET S == CallRecs(calls)
        IN /\ Len(S) = IF pc = "idle" THEN Len(urdf.joints) ELSE ji - 1
           /\ \A k \in DOMAIN S :
                /\ S[k].path = joint_entity_path(urdf.joints[k])
                /\ S[k].kind = "ndarray"
                /\ S[k].path \notin VisualPaths

====
